---- MODULE Spec2Model ----
(***************************************************************************)
(* Folk-Ezekia bidirectional sync server (sync_server.py).                 *)
(*                                                                         *)
(* System A is Ezekia (source tag "ezekia"), System B is Folk (source tag  *)
(* "folk").  The module models the persisted sync state, the loop          *)
(* suppressor (is_recently_synced / mark_synced), the change fingerprint   *)
(* (compute_hash), the inbound webhook handlers and the outbound           *)
(* Folk -> Ezekia batch.                                                   *)
(*                                                                         *)
(* Time is counted in whole seconds.  Every handler runs as one step: the  *)
(* single-flow-at-a-time model of the design.  md5 is taken to be          *)
(* collision free: a fingerprint is the canonical serialisation it digests.*)
(***************************************************************************)
EXTENDS Integers, Sequences, FiniteSets, TLC

VARIABLES
    now,            \* the wall clock, datetime.utcnow(), in seconds
    file,           \* STATE_FILE: <<>> when it does not exist, else <<state>>
    folk_people,    \* System B (Folk): person id -> person record
    folk_companies, \* System B (Folk): company id -> company record
    zapier,         \* which ZAPIER_*_URL settings are non-empty
    last,           \* what the last handler did (its response and its log)
    hist,           \* history of deliveries, inbound marks and Folk edits
    budget,         \* how many handlers and edits have run
    lstate,         \* loop-suppressor harness: the in-memory state under test
    marked,         \* harness history: <<source, id>> -> time of its last mark
    pruned,         \* harness history: pairs whose mark was older than the
                    \* retention window at a mark_synced call, not re-marked since
    snapshot,       \* batch harness: the kind, entries and sink outcomes given
                    \* to the batch under test
    pc,             \* step-wise handlers: request -> the line it has reached
    mem             \* step-wise handlers: request -> its local variables

lvars == <<lstate, marked, pruned>>

svars == <<file, folk_people, folk_companies, zapier, last, hist, budget>>

xvars == <<snapshot, pc, mem>>

vars == <<now, file, folk_people, folk_companies, zapier, last, hist, budget,
          lstate, marked, pruned, snapshot, pc, mem>>

----------------------------------------------------------------------------
(* Program constants                                                       *)

\* SYNC_COOLDOWN = 300  # 5 minutes
SYNC_COOLDOWN == 300

\* timedelta(hours=1) in mark_synced, in seconds
RETENTION == 3600

\* "last_poll": None; also used for "no mark" in the history variables
NoTime == -1

Sources == {"ezekia", "folk"}

----------------------------------------------------------------------------
(* Python dict helpers                                                     *)

EmptyDict == [x \in {} |-> 0]

\* d.get(k, def)
Get(d, k, def) == IF k \in DOMAIN d THEN d[k] ELSE def

\* d[k] = v
Put(d, k, v) == [x \in DOMAIN d \cup {k} |-> IF x = k THEN v ELSE d[x]]

\* {k: v for k, v in d.items() if k in keep}
Restrict(d, keep) == [x \in DOMAIN d \cap keep |-> d[x]]

----------------------------------------------------------------------------
(* State management                                                        *)

\* the default state load_state returns when there is no state file
EmptyState ==
    [last_poll |-> NoTime,
     people |-> EmptyDict,
     companies |-> EmptyDict,
     recent_syncs |-> EmptyDict]

\* key = f"{source}:{record_id}"
key_record_only(source, record_id) == record_id

key(source, record_id) == source \o ":" \o record_id

\* is_recently_synced(state, record_id, source)
is_recently_synced_le(state, record_id, source) ==
    LET k == key(source, record_id)
        recent == Get(state, "recent_syncs", EmptyDict)
    IN  /\ k \in DOMAIN recent
        /\ now - recent[k] <= SYNC_COOLDOWN

is_recently_synced(state, record_id, source) ==
    LET k == key(source, record_id)
        recent == Get(state, "recent_syncs", EmptyDict)
    IN  /\ k \in DOMAIN recent
        /\ now - recent[k] < SYNC_COOLDOWN

\* mark_synced(state, record_id, source)
mark_synced_no_prune(state, record_id, source) ==
    LET s1 == IF "recent_syncs" \in DOMAIN state
              THEN state
              ELSE Put(state, "recent_syncs", EmptyDict)
    IN  Put(s1, "recent_syncs", Put(s1.recent_syncs, key(source, record_id), now))

mark_synced(state, record_id, source) ==
    LET s1 == IF "recent_syncs" \in DOMAIN state
              THEN state
              ELSE Put(state, "recent_syncs", EmptyDict)
        written == Put(s1.recent_syncs, key(source, record_id), now)
        cutoff == now - RETENTION
        kept == Restrict(written, {k \in DOMAIN written : written[k] > cutoff})
    IN  Put(s1, "recent_syncs", kept)

----------------------------------------------------------------------------
(* Persistence                                                             *)

\* The file while open(STATE_FILE, 'w') has truncated it and json.dump has
\* not written it, or after a write that failed midway: json.load raises
Unreadable == <<[unreadable |-> TRUE]>>

\* load_state(): the file's content, or the default state when there is no
\* file or reading it raises
load_state(f) == IF f = <<>> \/ f = Unreadable THEN EmptyState ELSE f[1]

\* save_state(state): the file after json.dump(state, f)
save_state_lost(f, state) == f

save_state(f, state) == <<state>>

\* How a save_state call can end: the state is written; open() raises and
\* the file stays as it was; json.dump raises after open() truncated the
\* file
SaveOutcomes == {"saved", "not_opened", "truncated"}

\* save_state(state), lines 289-296, with its outcome
write_state(f, state, outcome) ==
    CASE outcome = "saved" -> save_state(f, state)
      [] outcome = "not_opened" -> f
      [] OTHER -> Unreadable

\* What a handler returns after its save_state call: save_state catches
\* every exception (lines 295-296), so the response computed before it
after_save_fatal(response, outcome) ==
    IF outcome = "saved" THEN response ELSE [status |-> "error"]

after_save(response, outcome) == response

----------------------------------------------------------------------------
(* Change fingerprint                                                      *)

\* The keys of the hashed field subsets, in the order sort_keys=True
\* serialises them.
SortedKeys ==
    <<"emails", "firstName", "jobTitle", "lastName", "name", "phones", "urls">>

\* stored.get("hash", ""): the value no digest equals
NoHash == <<>>

\* compute_hash(data): data is a dict, given as its <<key, value>> items in
\* insertion order; the digest of json.dumps(data, sort_keys=True) is
\* modelled by the serialisation itself, the items ordered by key.
compute_hash_unsorted(data) == data

compute_hash(data) ==
    LET keys == {data[i][1] : i \in DOMAIN data}
        sorted == SelectSeq(SortedKeys, LAMBDA k : k \in keys)
        item(k) == data[CHOOSE i \in DOMAIN data : data[i][1] = k]
    IN  [j \in 1..Len(sorted) |-> item(sorted[j])]

\* hash_data of a person (lines 608-614)
person_hash_data_no_title(person) ==
    << <<"firstName", Get(person, "firstName", "")>>,
       <<"lastName", Get(person, "lastName", "")>>,
       <<"emails", Get(person, "emails", <<>>)>>,
       <<"phones", Get(person, "phones", <<>>)>>,
       <<"jobTitle", "">> >>

person_hash_data(person) ==
    << <<"firstName", Get(person, "firstName", "")>>,
       <<"lastName", Get(person, "lastName", "")>>,
       <<"emails", Get(person, "emails", <<>>)>>,
       <<"phones", Get(person, "phones", <<>>)>>,
       <<"jobTitle", Get(person, "jobTitle", "")>> >>

\* hash_data of a company (lines 703-706)
company_hash_data(company) ==
    << <<"name", Get(company, "name", "")>>,
       <<"urls", Get(company, "urls", <<>>)>> >>

hash_data(kind, record) ==
    IF kind = "people" THEN person_hash_data(record) ELSE company_hash_data(record)

----------------------------------------------------------------------------
(* Folk -> Ezekia: the outbound batch                                      *)

\* What a Zapier webhook call can end in: a 2xx answer, or an exception
\* (timeout, network error); any other status ends as the exception does,
\* in False.
SinkOutcomes == {"200", "timeout"}

\* send_to_zapier(url, data): url is given as "is it configured"
send_to_zapier(url, data, outcome) ==
    IF ~url THEN FALSE ELSE outcome \in {"200", "201"}

\* emails[0] if emails and isinstance(emails[0], str) else ""
First(list) == IF Len(list) > 0 THEN list[1] ELSE ""

\* The urls that contain "linkedin"
LinkedinUrls == {"linkedin.com/in/jo"}

\* ezekia_data of a person (lines 628-651)
person_ezekia_data(person) ==
    LET urls == Get(person, "urls", <<>>)
        companies == Get(person, "companies", <<>>)
        base == [folk_id |-> Get(person, "id", ""),
                 first_name |-> Get(person, "firstName", ""),
                 last_name |-> Get(person, "lastName", ""),
                 email |-> First(Get(person, "emails", <<>>)),
                 phone |-> First(Get(person, "phones", <<>>)),
                 position_title |-> Get(person, "jobTitle", ""),
                 description |-> Get(person, "description", "")]
        linked == {i \in DOMAIN urls : urls[i] \in LinkedinUrls}
        with_url == IF linked = {} THEN base
                    ELSE Put(base, "linkedin_url",
                             urls[CHOOSE i \in linked : \A j \in linked : i <= j])
    IN  IF Len(companies) > 0
        THEN Put(with_url, "company_name", Get(companies[1], "name", ""))
        ELSE with_url

\* ezekia_data of a company (lines 719-724)
company_ezekia_data(company) ==
    [folk_id |-> Get(company, "id", ""),
     name |-> Get(company, "name", ""),
     website |-> First(Get(company, "urls", <<>>))]

ezekia_data(kind, record) ==
    IF kind = "people" THEN person_ezekia_data(record) ELSE company_ezekia_data(record)

\* A snapshot entry is tagged with its Python type: a dict (d), a list (l)
\* or anything else.
Dict(d) == [t |-> "dict", d |-> d]

\* lines 592-593: a non-empty list stands for its first element
unwrap(entry) ==
    IF entry.t = "list" /\ Len(entry.l) > 0
    THEN (IF entry.l[1].t = "dict" THEN entry.l[1] ELSE Dict(EmptyDict))
    ELSE entry

\* line 602: is_recently_synced(state, folk_id, "ezekia")
loop_check_folk(state, folk_id) == is_recently_synced(state, folk_id, "folk")

loop_check(state, folk_id) == is_recently_synced(state, folk_id, "ezekia")

\* lines 618-619: state[kind].get(folk_id, {}).get("hash", "")
stored_hash_wrong_key(state, kind, folk_id) ==
    Get(Get(state[kind], folk_id, EmptyDict), "fingerprint", NoHash)

stored_hash(state, kind, folk_id) ==
    Get(Get(state[kind], folk_id, EmptyDict), "hash", NoHash)

\* lines 654-655: the webhook chosen for a record, by its channel name
channel_first_only(state, kind, folk_id) ==
    IF state[kind] = EmptyDict THEN "new" ELSE "update"

channel(state, kind, folk_id) ==
    IF folk_id \notin DOMAIN state[kind] THEN "new" ELSE "update"

\* ZAPIER_PERSON_NEW_URL ... ZAPIER_COMPANY_UPDATE_URL
webhook_url(kind, ch) ==
    zapier[(IF kind = "people" THEN "person_" ELSE "company_") \o ch]

\* lines 657-666: the state after the delivery attempt of one record
after_send_always(state, kind, folk_id, current_hash, sent) ==
    mark_synced(
        Put(state, kind,
            Put(state[kind], folk_id, [hash |-> current_hash, last_synced |-> now])),
        folk_id, "folk")

after_send(state, kind, folk_id, current_hash, sent) ==
    IF sent
    THEN mark_synced(
            Put(state, kind,
                Put(state[kind], folk_id, [hash |-> current_hash, last_synced |-> now])),
            folk_id, "folk")
    ELSE state

ZeroStats == [synced |-> 0, skipped |-> 0, errors |-> 0]

Bump_none(stats, field) == stats

Bump(stats, field) == [stats EXCEPT ![field] = @ + 1]

\* One iteration of the for loop (lines 590-666 and 685-738).  acc holds
\* the in-memory state, the tallies and the log of what was done with each
\* entry: its class, the channel chosen, whether the sink was called and
\* answered 2xx, and the in-memory state before (s0) and after (s1).
sync_record(kind, acc, entry, outcome) ==
    LET e == unwrap(entry)
        s0 == acc.state
        note(cls, ch, invoked, ok, rec, s1) ==
            [cls |-> cls, channel |-> ch, invoked |-> invoked, ok |-> ok,
             id |-> Get(rec, "id", ""), rec |-> rec, s0 |-> s0, s1 |-> s1]
    IN  IF e.t # "dict"
        THEN [state |-> s0,
              stats |-> Bump(acc.stats, "errors"),
              log |-> Append(acc.log, note("invalid", "none", FALSE, FALSE, EmptyDict, s0))]
        ELSE
        LET record == e.d
            folk_id == Get(record, "id", "")
        IN  IF loop_check(s0, folk_id)
            THEN [state |-> s0,
                  stats |-> Bump(acc.stats, "skipped"),
                  log |-> Append(acc.log,
                                 note("skipped_recent", "none", FALSE, FALSE, record, s0))]
            ELSE
            LET current_hash == compute_hash(hash_data(kind, record))
            IN  IF current_hash = stored_hash(s0, kind, folk_id)
                THEN [state |-> s0,
                      stats |-> Bump(acc.stats, "skipped"),
                      log |-> Append(acc.log,
                                     note("skipped_unchanged", "none", FALSE, FALSE, record, s0))]
                ELSE
                LET ch == channel(s0, kind, folk_id)
                    sent == send_to_zapier(webhook_url(kind, ch),
                                           ezekia_data(kind, record), outcome)
                    s1 == after_send(s0, kind, folk_id, current_hash, sent)
                IN  [state |-> s1,
                     stats |-> Bump(acc.stats, IF sent THEN "synced" ELSE "errors"),
                     log |-> Append(acc.log,
                                    note(IF ch = "new" THEN "new" ELSE "changed",
                                         ch, TRUE, sent, record, s1))]

RECURSIVE sync_loop(_, _, _, _, _)
sync_loop(kind, acc, entries, outcomes, i) ==
    IF i > Len(entries) THEN acc
    ELSE sync_loop(kind, sync_record(kind, acc, entries[i], outcomes[i]),
                   entries, outcomes, i + 1)

\* sync_folk_people_to_ezekia() / sync_folk_companies_to_ezekia(): f is the
\* state file before, entries the snapshot get_all_people() returned,
\* outcomes what each delivery attempt would end in.
sync_batch(kind, f, entries, outcomes) ==
    LET state == load_state(f)
    IN  IF Len(entries) = 0
        THEN [file |-> f, stats |-> ZeroStats, log |-> <<>>,
              state0 |-> state, final |-> state, saved |-> FALSE]
        ELSE
        LET acc == sync_loop(kind, [state |-> state, stats |-> ZeroStats, log |-> <<>>],
                             entries, outcomes, 1)
            final == Put(acc.state, "last_poll", now)
        IN  [file |-> save_state(f, final), stats |-> acc.stats, log |-> acc.log,
             state0 |-> state, final |-> final, saved |-> TRUE]

sync_folk_people_to_ezekia(f, people, outcomes) ==
    sync_batch("people", f, people, outcomes)

sync_folk_companies_to_ezekia(f, companies, outcomes) ==
    sync_batch("companies", f, companies, outcomes)

----------------------------------------------------------------------------
(* Loop-suppressor harness: mark_synced and is_recently_synced applied to  *)
(* an in-memory state at every instant of the clock.                       *)

\* The instants the clock visits: around the cooldown and the retention
\* window of a mark made at 0 or at 1.
TimePoints ==
    {0, 1,
     SYNC_COOLDOWN - 1, SYNC_COOLDOWN, SYNC_COOLDOWN + 1,
     RETENTION, RETENTION + 1}

LoopIds == {"p1", "p2"}

Pairs == Sources \X LoopIds

LoopInit ==
    /\ now = 0
    /\ lstate \in {EmptyState,
                   [last_poll |-> NoTime, people |-> EmptyDict, companies |-> EmptyDict]}
    /\ marked = [p \in Pairs |-> NoTime]
    /\ pruned = {}
    /\ file = <<>>
    /\ folk_people = EmptyDict
    /\ folk_companies = EmptyDict
    /\ zapier = EmptyDict
    /\ last = [op |-> "init"]
    /\ hist = EmptyDict
    /\ budget = EmptyDict
    /\ snapshot = EmptyDict
    /\ pc = EmptyDict
    /\ mem = EmptyDict

LoopMark(source, record_id) ==
    /\ lstate' = mark_synced(lstate, record_id, source)
    /\ marked' = [marked EXCEPT ![<<source, record_id>>] = now]
    /\ pruned' = (pruned \cup {p \in Pairs : /\ marked[p] # NoTime
                                             /\ now - marked[p] > RETENTION})
                    \ {<<source, record_id>>}
    /\ UNCHANGED <<now, svars, xvars>>

LoopTick ==
    /\ \E t \in TimePoints : t > now /\ now' = t
    /\ UNCHANGED <<lvars, svars, xvars>>

LoopNext ==
    \/ \E s \in Sources, r \in LoopIds : LoopMark(s, r)
    \/ LoopTick

SpecLoop == LoopInit /\ [][LoopNext]_vars

----------------------------------------------------------------------------
(* System B (Folk) behind FolkClient                                       *)

PersonIds == {"p1", "p2"}

CompanyIds == {"c1", "c2"}

\* What a Folk create or update call can answer: success with the record's
\* id, success with a body that carries no id, or a failure status.
FolkResponses == {"201", "201-noid", "500"}

FolkOk_any(resp) == TRUE

FolkOk(resp) == resp \in {"201", "201-noid"}

\* str.lower() on the e-mail addresses and names of the model
LowerCase == ("JO@X.COM" :> "jo@x.com" @@ "Jo" :> "jo" @@ "Li" :> "li"
              @@ "Al" :> "al" @@ "Wu" :> "wu")

Lower(str) == IF str \in DOMAIN LowerCase THEN LowerCase[str] ELSE str

\* [{"value": v}] as Folk returns it afterwards: a list of strings (line 627)
Values(objects) == [i \in DOMAIN objects |-> objects[i].value]

\* The record Folk holds after create_person / create_company(folk_data)
FolkCreated(kind, id, folk_data) ==
    IF kind = "people"
    THEN [id |-> id,
          firstName |-> Get(folk_data, "firstName", ""),
          lastName |-> Get(folk_data, "lastName", ""),
          jobTitle |-> Get(folk_data, "jobTitle", ""),
          emails |-> Values(Get(folk_data, "emails", <<>>)),
          phones |-> Values(Get(folk_data, "phones", <<>>)),
          urls |-> Values(Get(folk_data, "urls", <<>>)),
          description |-> ""]
    ELSE [id |-> id,
          name |-> Get(folk_data, "name", ""),
          urls |-> Values(Get(folk_data, "urls", <<>>))]

\* The record Folk holds after update_person(person_id, person_data): the
\* fields sent replace the record's
FolkPatched(record, folk_data) ==
    [k \in DOMAIN record |->
        IF k \in DOMAIN folk_data
        THEN (IF k \in {"emails", "phones", "urls"} THEN Values(folk_data[k]) ELSE folk_data[k])
        ELSE record[k]]

\* The orders in which a listing can return the records with these ids
Orders(ids) ==
    {o \in [1..Cardinality(ids) -> ids] : \A i, j \in DOMAIN o : o[i] = o[j] => i = j}

\* get_all_people() / get_all_companies(): the records in listing order
Snapshot(records, order) == [i \in DOMAIN order |-> Dict(records[order[i]])]

\* search_person_by_email(email): the first listed person with that address
RECURSIVE search_person_by_email(_, _, _)
search_person_by_email(email, people, i) ==
    IF email = "" \/ i > Len(people) THEN EmptyDict
    ELSE LET person == people[i]
             emails == IF person.t = "dict" THEN Get(person.d, "emails", <<>>) ELSE <<>>
         IN  IF \E j \in DOMAIN emails : Lower(emails[j]) = Lower(email)
             THEN person.d
             ELSE search_person_by_email(email, people, i + 1)

\* search_person_by_name(first_name, last_name): the first listed person
\* with that first and last name, compared in lower case
RECURSIVE search_person_by_name(_, _, _, _)
search_person_by_name(first_name, last_name, people, i) ==
    IF (first_name = "" /\ last_name = "") \/ i > Len(people) THEN EmptyDict
    ELSE LET person == people[i]
         IN  IF /\ person.t = "dict"
                /\ Lower(Get(person.d, "firstName", "")) = Lower(first_name)
                /\ Lower(Get(person.d, "lastName", "")) = Lower(last_name)
             THEN person.d
             ELSE search_person_by_name(first_name, last_name, people, i + 1)

\* get_person(person_id): the record, or None when the answer is not 200
get_person(people, person_id, answers) ==
    IF answers /\ person_id \in DOMAIN people THEN people[person_id] ELSE EmptyDict

----------------------------------------------------------------------------
(* Ezekia -> Folk: the inbound webhooks                                    *)

\* The request bodies Ezekia (through Zapier) posts
HookPeople ==
    {[first_name |-> "Jo", last_name |-> "Li", job_title |-> "CEO", email |-> "jo@x.com"],
     [first_name |-> "Al", last_name |-> "Wu", email |-> "JO@X.COM", phone |-> "555"]}

HookCompanies == {[company_name |-> "Beta", website |-> "beta.io"]}

\* folk_data of a person event (lines 341-353 and 382-393)
person_folk_data(data) ==
    LET base == [firstName |-> Get(data, "first_name", ""),
                 lastName |-> Get(data, "last_name", ""),
                 jobTitle |-> Get(data, "job_title", "")]
        e == IF Get(data, "email", "") # ""
             THEN Put(base, "emails", <<[value |-> data.email]>>) ELSE base
        ph == IF Get(data, "phone", "") # ""
              THEN Put(e, "phones", <<[value |-> data.phone]>>) ELSE e
    IN  IF Get(data, "linkedin_url", "") # ""
        THEN Put(ph, "urls", <<[value |-> data.linkedin_url]>>) ELSE ph

\* folk_data of a company event (lines 418-423)
company_folk_data(data) ==
    LET base == [name |-> Get(data, "name", Get(data, "company_name", "Unknown"))]
    IN  IF Get(data, "website", "") # ""
        THEN Put(base, "urls", <<[value |-> data.website]>>) ELSE base

\* lines 362-364: state = load_state(); mark_synced(state, folk_id,
\* "ezekia"); save_state(state)
inbound_mark_folk(f, folk_id) ==
    save_state(f, mark_synced(load_state(f), folk_id, "folk"))

inbound_mark(f, folk_id) ==
    save_state(f, mark_synced(load_state(f), folk_id, "ezekia"))

----------------------------------------------------------------------------
(* History kept for the claims                                             *)

\* echo: the records whose Folk content is what an inbound event wrote
\*       (the adapter reported their id) and that nobody changed in Folk
\*       since
\* inboundAt: record id -> time of the last inbound mark for it
\* delivered: record id -> the record as last delivered to Ezekia
\* failed: record id -> the record and channel of its last delivery
\*       failure, when no delivery of it succeeded since
EmptyHist ==
    [echo |-> {}, inboundAt |-> EmptyDict, delivered |-> EmptyDict, failed |-> EmptyDict]

HistInbound(h, target, folk_id) ==
    [h EXCEPT !.echo = IF folk_id = target THEN @ \cup {target} ELSE @,
              !.inboundAt = Put(@, folk_id, now)]

\* The ids of the Folk people that a lookup by e-mail or by name matches
EmailMatches(email) ==
    {id \in DOMAIN folk_people :
        \E j \in DOMAIN folk_people[id].emails :
            Lower(folk_people[id].emails[j]) = Lower(email)}

NameMatches(first_name, last_name) ==
    {id \in DOMAIN folk_people :
        /\ Lower(folk_people[id].firstName) = Lower(first_name)
        /\ Lower(folk_people[id].lastName) = Lower(last_name)}

\* The people the lookup of a note event matches, by the key it used
NoteMatches(data, person) ==
    IF person = EmptyDict /\ Get(data, "folk_id", "") = "" /\ Get(data, "email", "") = ""
    THEN NameMatches(Get(data, "first_name", ""), Get(data, "last_name", ""))
    ELSE IF person = EmptyDict THEN {}
    ELSE IF Get(data, "folk_id", "") = person.id THEN {person.id}
    ELSE IF person.id \in EmailMatches(Get(data, "email", ""))
    THEN EmailMatches(Get(data, "email", ""))
    ELSE NameMatches(Get(data, "first_name", ""), Get(data, "last_name", ""))

RECURSIVE HistBatch(_, _, _)
HistBatch(h, log, i) ==
    IF i > Len(log) THEN h
    ELSE LET e == log[i]
             h1 == IF e.ok
                   THEN [h EXCEPT !.delivered = Put(@, e.id, e.rec),
                                  !.failed = Restrict(@, DOMAIN @ \ {e.id})]
                   ELSE IF e.invoked
                   THEN [h EXCEPT !.failed = Put(@, e.id, [rec |-> e.rec, channel |-> e.channel])]
                   ELSE h
         IN  HistBatch(h1, log, i + 1)

----------------------------------------------------------------------------
(* The system: handlers, Folk users and the clock                          *)

MaxSyncs == 2

MaxHooks == 1

MaxEdits == 1

\* The instants at which the system is observed
PollTimes == {0, SYNC_COOLDOWN - 1, SYNC_COOLDOWN}

\* The values a Folk user can give to a field
EditValues ==
    [firstName |-> {"Jo", "Al"},
     lastName |-> {"Li", "Wu"},
     emails |-> {<<"jo@x.com">>, <<"al@x.com">>},
     phones |-> {<<>>, <<"555">>},
     jobTitle |-> {"CEO", "CTO"},
     name |-> {"Acme", "Beta"},
     urls |-> {<<>>, <<"acme.com">>}]

BasePerson ==
    [id |-> "p1", firstName |-> "Jo", lastName |-> "Li", jobTitle |-> "CEO",
     emails |-> <<"jo@x.com">>, phones |-> <<>>, urls |-> <<>>, description |-> ""]

BaseCompany == [id |-> "c1", name |-> "Acme", urls |-> <<"acme.com">>]

AllUrls ==
    [person_new |-> TRUE, person_update |-> TRUE,
     company_new |-> TRUE, company_update |-> TRUE]

Init ==
    /\ now = 0
    /\ file = <<>>
    /\ folk_people = ("p1" :> BasePerson)
    /\ folk_companies = ("c1" :> BaseCompany)
    /\ zapier = [AllUrls EXCEPT !.company_update = FALSE]
    /\ last = [op |-> "init"]
    /\ hist = EmptyHist
    /\ budget = [sync |-> 0, hook |-> 0, edit |-> 0]
    /\ lstate = EmptyState
    /\ marked = [p \in Pairs |-> NoTime]
    /\ pruned = {}
    /\ snapshot = EmptyDict
    /\ pc = EmptyDict
    /\ mem = EmptyDict

\* @app.route('/sync/folk-to-ezekia'): the people batch, then the companies
\* batch
SyncFolkToEzekia ==
    /\ budget.sync < MaxSyncs
    /\ \E porder \in Orders(DOMAIN folk_people),
          corder \in Orders(DOMAIN folk_companies) :
         \E pout \in [DOMAIN porder -> SinkOutcomes],
            cout \in [DOMAIN corder -> SinkOutcomes] :
           LET people == sync_folk_people_to_ezekia(
                             file, Snapshot(folk_people, porder), pout)
               companies == sync_folk_companies_to_ezekia(
                             people.file, Snapshot(folk_companies, corder), cout)
           IN  /\ file' = companies.file
               /\ last' = [op |-> "sync", people |-> people, companies |-> companies,
                           hist0 |-> hist]
               /\ hist' = HistBatch(hist, people.log \o companies.log, 1)
    /\ budget' = [budget EXCEPT !.sync = @ + 1]
    /\ UNCHANGED <<now, folk_people, folk_companies, zapier, lvars, xvars>>

\* @app.route('/webhook/person/new')
WebhookPersonNew ==
    /\ budget.hook < MaxHooks
    /\ \E data \in HookPeople, resp \in FolkResponses, new \in PersonIds \ DOMAIN folk_people :
         LET folk_data == person_folk_data(data)
             folk_id == IF resp = "201" THEN new ELSE ""
         IN  /\ folk_people' = IF FolkOk(resp)
                               THEN Put(folk_people, new, FolkCreated("people", new, folk_data))
                               ELSE folk_people
             /\ file' = IF FolkOk(resp) THEN inbound_mark(file, folk_id) ELSE file
             /\ hist' = IF FolkOk(resp) THEN HistInbound(hist, new, folk_id) ELSE hist
             /\ last' = [op |-> "webhook_person_new",
                         status |-> IF FolkOk(resp) THEN "success" ELSE "error",
                         adapter |-> "create", existing |-> "", folk_id |-> folk_id,
                         resp |-> resp, calls |-> 1,
                         code |-> IF FolkOk(resp) THEN 200 ELSE 500,
                         message |-> IF FolkOk(resp) THEN "" ELSE "response.text",
                         file0 |-> file, hist0 |-> hist]
    /\ budget' = [budget EXCEPT !.hook = @ + 1]
    /\ UNCHANGED <<now, folk_companies, zapier, lvars, xvars>>

\* @app.route('/webhook/person/update')
WebhookPersonUpdate ==
    /\ budget.hook < MaxHooks
    /\ \E data \in HookPeople, resp \in FolkResponses, order \in Orders(DOMAIN folk_people) :
         LET email == Get(data, "email", "")
             existing == search_person_by_email(email, Snapshot(folk_people, order), 1)
             folk_data == person_folk_data(data)
             found == existing # EmptyDict
         IN  \E new \in IF found THEN {existing.id} ELSE PersonIds \ DOMAIN folk_people :
               LET folk_id == IF found THEN existing.id
                              ELSE IF resp = "201" THEN new ELSE ""
               IN  /\ folk_people' =
                        IF ~FolkOk(resp) THEN folk_people
                        ELSE IF found
                        THEN Put(folk_people, new, FolkPatched(existing, folk_data))
                        ELSE Put(folk_people, new, FolkCreated("people", new, folk_data))
                   /\ file' = IF FolkOk(resp) THEN inbound_mark(file, folk_id) ELSE file
                   /\ hist' = IF FolkOk(resp) THEN HistInbound(hist, new, folk_id) ELSE hist
                   /\ last' = [op |-> "webhook_person_update",
                               status |-> IF FolkOk(resp) THEN "success" ELSE "error",
                               adapter |-> IF found THEN "update" ELSE "create",
                               existing |-> IF found THEN existing.id ELSE "",
                               folk_id |-> folk_id,
                               matches |-> EmailMatches(email),
                               resp |-> resp, calls |-> 1,
                               code |-> IF FolkOk(resp) THEN 200 ELSE 500,
                               message |-> IF FolkOk(resp) THEN "" ELSE "response.text",
                               file0 |-> file, hist0 |-> hist]
    /\ budget' = [budget EXCEPT !.hook = @ + 1]
    /\ UNCHANGED <<now, folk_companies, zapier, lvars, xvars>>

\* @app.route('/webhook/company/new')
WebhookCompanyNew ==
    /\ budget.hook < MaxHooks
    /\ \E data \in HookCompanies, resp \in FolkResponses,
          new \in CompanyIds \ DOMAIN folk_companies :
         LET folk_data == company_folk_data(data)
             folk_id == IF resp = "201" THEN new ELSE ""
         IN  /\ folk_companies' =
                  IF FolkOk(resp)
                  THEN Put(folk_companies, new, FolkCreated("companies", new, folk_data))
                  ELSE folk_companies
             /\ file' = IF FolkOk(resp) THEN inbound_mark(file, folk_id) ELSE file
             /\ hist' = IF FolkOk(resp) THEN HistInbound(hist, new, folk_id) ELSE hist
             /\ last' = [op |-> "webhook_company_new",
                         status |-> IF FolkOk(resp) THEN "success" ELSE "error",
                         adapter |-> "create", existing |-> "", folk_id |-> folk_id,
                         resp |-> resp, calls |-> 1,
                         code |-> IF FolkOk(resp) THEN 200 ELSE 500,
                         message |-> IF FolkOk(resp) THEN "" ELSE "response.text",
                         file0 |-> file, hist0 |-> hist]
    /\ budget' = [budget EXCEPT !.hook = @ + 1]
    /\ UNCHANGED <<now, folk_people, zapier, lvars, xvars>>

\* @app.route('/webhook/company/update'): acknowledged, nothing is done
WebhookCompanyUpdate ==
    /\ budget.hook < MaxHooks
    /\ last' = [op |-> "webhook_company_update", status |-> "received",
                adapter |-> "none", existing |-> "", folk_id |-> "",
                resp |-> "none", calls |-> 0, code |-> 200, message |-> "",
                file0 |-> file, hist0 |-> hist]
    /\ budget' = [budget EXCEPT !.hook = @ + 1]
    /\ UNCHANGED <<now, file, folk_people, folk_companies, zapier, hist, lvars, xvars>>

EZEKIA_NOTES_FIELD == "Ezekia Notes"

\* The request bodies of a note event
NotePayloads ==
    {[note |-> "called", folk_id |-> "p1"],
     [note |-> "met", email |-> "JO@X.COM", note_type |-> "activity",
      note_date |-> "2024-01-15"],
     [note |-> "hi", first_name |-> "jo", last_name |-> "li"],
     [note |-> " ", folk_id |-> "p1"],
     [note |-> "lost", email |-> "no@x.com"]}

\* str.strip() and str.upper() on the strings of the note payloads
Strip(str) == IF str = " " THEN "" ELSE str

Upper(str) == IF str = "note" THEN "NOTE" ELSE IF str = "activity" THEN "ACTIVITY" ELSE str

\* get_first_group_id() answers
GroupIds == {"g1", ""}

\* lines 515-520 and 199-201: "[ts] [TYPE] (date) content"
formatted_note(data) ==
    [ts |-> now,
     type |-> Upper(Get(data, "note_type", "note")),
     date |-> Get(data, "note_date", ""),
     content |-> Strip(data.note)]

\* lines 477-495: the person the note is for, by id, then by e-mail, then
\* by name
note_person(data, people, listing, answers) ==
    LET folk_id == Get(data, "folk_id", "")
        by_id == IF folk_id # "" THEN get_person(people, folk_id, answers) ELSE EmptyDict
        email == Get(data, "email", "")
        by_email == IF by_id = EmptyDict /\ email # ""
                    THEN search_person_by_email(email, listing, 1) ELSE by_id
        first_name == Get(data, "first_name", "")
        last_name == Get(data, "last_name", "")
    IN  IF by_email = EmptyDict /\ (first_name # "" \/ last_name # "")
        THEN search_person_by_name(first_name, last_name, listing, 1)
        ELSE by_email

\* append_to_custom_field, lines 193-210: the new entry before the field's
\* current value
appended(person, group_id, entry) ==
    LET custom_fields == Get(person, "customFieldValues", EmptyDict)
        current_value == Get(Get(custom_fields, group_id, EmptyDict), EZEKIA_NOTES_FIELD, <<>>)
    IN  Put(person, "customFieldValues",
            (group_id :> (EZEKIA_NOTES_FIELD :> (<<entry>> \o current_value))))

\* @app.route('/webhook/note').  answers: the lookups get an answer from
\* Folk; group_id: what get_first_group_id() returns; fetched: get_person
\* inside append_to_custom_field answers; resp: the answer to update_person
WebhookNote ==
    /\ budget.hook < MaxHooks
    /\ \E data \in NotePayloads, answers \in BOOLEAN, group_id \in GroupIds,
          fetched \in BOOLEAN, resp \in FolkResponses, order \in Orders(DOMAIN folk_people) :
         LET listing == IF answers THEN Snapshot(folk_people, order) ELSE <<>>
             person == note_person(data, folk_people, listing, answers)
             person_id == Get(person, "id", "")
             reply(status, code, message, adapter, folk_id) ==
                 [op |-> "webhook_note", status |-> status, adapter |-> adapter,
                  existing |-> person_id, folk_id |-> folk_id,
                  matches |-> NoteMatches(data, person),
                  resp |-> IF adapter = "none" THEN "none" ELSE resp,
                  calls |-> IF adapter = "none" THEN 0 ELSE 1,
                  code |-> code, message |-> message,
                  file0 |-> file, hist0 |-> hist]
         IN  IF Strip(data.note) = ""
             THEN /\ last' = reply("error", 400, "No note content provided", "none", "")
                  /\ UNCHANGED <<file, folk_people, hist>>
             ELSE IF person = EmptyDict
             THEN /\ last' = reply("error", 404, "Person not found in Folk", "none", "")
                  /\ UNCHANGED <<file, folk_people, hist>>
             ELSE IF group_id = ""
             THEN /\ last' = reply("error", 500, "No Folk group found for custom fields",
                                   "none", "")
                  /\ UNCHANGED <<file, folk_people, hist>>
             ELSE IF ~fetched
             THEN /\ last' = reply("error", 500, "Unknown error", "none", "")
                  /\ UNCHANGED <<file, folk_people, hist>>
             ELSE IF FolkOk(resp)
             THEN /\ folk_people' = Put(folk_people, person_id,
                                        appended(folk_people[person_id], group_id,
                                                 formatted_note(data)))
                  /\ file' = inbound_mark(file, person_id)
                  /\ hist' = HistInbound(hist, "", person_id)
                  /\ last' = reply("success", 200, "", "update", person_id)
             ELSE /\ last' = reply("error", 500, "response.text", "update", "")
                  /\ UNCHANGED <<file, folk_people, hist>>
    /\ budget' = [budget EXCEPT !.hook = @ + 1]
    /\ UNCHANGED <<now, folk_companies, zapier, lvars, xvars>>

\* A Folk user changes one field of a person
FolkEditPerson ==
    /\ budget.edit < MaxEdits
    /\ \E id \in DOMAIN folk_people,
          field \in {"firstName", "lastName", "emails", "phones", "jobTitle"} :
         \E value \in EditValues[field] \ {folk_people[id][field]} :
           folk_people' = Put(folk_people, id, Put(folk_people[id], field, value))
           /\ hist' = [hist EXCEPT !.echo = @ \ {id}]
    /\ last' = [op |-> "edit"]
    /\ budget' = [budget EXCEPT !.edit = @ + 1]
    /\ UNCHANGED <<now, file, folk_companies, zapier, lvars, xvars>>

\* A Folk user changes one field of a company
FolkEditCompany ==
    /\ budget.edit < MaxEdits
    /\ \E id \in DOMAIN folk_companies, field \in {"name", "urls"} :
         \E value \in EditValues[field] \ {folk_companies[id][field]} :
           folk_companies' = Put(folk_companies, id, Put(folk_companies[id], field, value))
           /\ hist' = [hist EXCEPT !.echo = @ \ {id}]
    /\ last' = [op |-> "edit"]
    /\ budget' = [budget EXCEPT !.edit = @ + 1]
    /\ UNCHANGED <<now, file, folk_people, zapier, lvars, xvars>>

\* Time passes
Tick ==
    /\ \E t \in PollTimes : t > now /\ now' = t
    /\ last' = [op |-> "tick"]
    /\ UNCHANGED <<file, folk_people, folk_companies, zapier, hist, budget, lvars, xvars>>

Next ==
    \/ SyncFolkToEzekia
    \/ WebhookPersonNew
    \/ WebhookPersonUpdate
    \/ WebhookCompanyNew
    \/ WebhookCompanyUpdate
    \/ WebhookNote
    \/ FolkEditPerson
    \/ FolkEditCompany
    \/ Tick

Spec == Init /\ [][Next]_vars

----------------------------------------------------------------------------
(* The inbound handlers alone, a few events in a row                       *)

MaxInbound == 2

InboundInit ==
    /\ now = 0
    /\ file = <<>>
    /\ folk_people = ("p1" :> BasePerson)
    /\ folk_companies = ("c1" :> BaseCompany)
    /\ zapier = [AllUrls EXCEPT !.company_update = FALSE]
    /\ last = [op |-> "init"]
    /\ hist = EmptyHist
    /\ budget = [sync |-> MaxSyncs, hook |-> MaxHooks - MaxInbound, edit |-> MaxEdits]
    /\ lstate = EmptyState
    /\ marked = [p \in Pairs |-> NoTime]
    /\ pruned = {}
    /\ snapshot = EmptyDict
    /\ pc = EmptyDict
    /\ mem = EmptyDict

InboundNext ==
    \/ WebhookPersonNew
    \/ WebhookPersonUpdate
    \/ WebhookCompanyNew
    \/ WebhookCompanyUpdate
    \/ WebhookNote

SpecInbound == InboundInit /\ [][InboundNext]_vars

----------------------------------------------------------------------------
(* Batch harness: the outbound batch of one kind applied to a snapshot     *)
(* that can hold entries of unexpected shape, from the state files that    *)
(* batches, inbound marks and the clock produce.                           *)

MaxSnapshot == 3

MaxRuns == 2

MaxMarks == 1

SecondPerson ==
    [id |-> "p2", firstName |-> "Al", lastName |-> "Wu", jobTitle |-> "CTO",
     emails |-> <<"al@x.com">>, phones |-> <<"555">>, urls |-> <<>>, description |-> ""]

WrappedPerson == [SecondPerson EXCEPT !.id = "p3"]

SecondCompany == [id |-> "c2", name |-> "Beta", urls |-> <<>>]

WrappedCompany == [SecondCompany EXCEPT !.id = "c3"]

\* The records a listing of a kind can hold
ValidEntries(kind) ==
    IF kind = "people"
    THEN {Dict(BasePerson), Dict(SecondPerson)}
    ELSE {Dict(BaseCompany), Dict(SecondCompany)}

\* Entries that are not a dict (lines 592-597): a list holding a record, a
\* list holding a string, an empty list, a string, None
OddEntries(kind) ==
    {[t |-> "list",
      l |-> <<Dict(IF kind = "people" THEN WrappedPerson ELSE WrappedCompany)>>],
     [t |-> "list", l |-> <<[t |-> "str"]>>],
     [t |-> "list", l |-> <<>>],
     [t |-> "str"],
     [t |-> "null"]}

\* The snapshots given to the batch: no entry twice, at most one entry that
\* is not a dict
Snapshots(kind) ==
    LET pool == ValidEntries(kind) \cup OddEntries(kind)
    IN  UNION {{q \in [1..n -> pool] :
                  /\ \A i, j \in 1..n : q[i] = q[j] => i = j
                  /\ Cardinality({i \in 1..n : q[i].t # "dict"}) <= 1}
               : n \in 0..MaxSnapshot}

BatchInit ==
    /\ now = 0
    /\ file = <<>>
    /\ \E kind \in {"people", "companies"} :
         \E entries \in Snapshots(kind) :
           \E outs \in [DOMAIN entries -> SinkOutcomes] :
             snapshot = [kind |-> kind, entries |-> entries, outcomes |-> outs]
    /\ zapier = [AllUrls EXCEPT !.company_update = FALSE]
    /\ last = [op |-> "init"]
    /\ budget = [run |-> 0, mark |-> 0]
    /\ folk_people = EmptyDict
    /\ folk_companies = EmptyDict
    /\ hist = [delivered |-> {}]
    /\ lstate = EmptyState
    /\ marked = [p \in Pairs |-> NoTime]
    /\ pruned = {}
    /\ pc = EmptyDict
    /\ mem = EmptyDict

\* sync_folk_people_to_ezekia() or sync_folk_companies_to_ezekia() on the
\* snapshot.  last.prev holds the result of the batch of the step before,
\* when that step was a batch; hist.delivered the ids of the records that
\* batches have delivered.
BatchRun ==
    /\ budget.run < MaxRuns
    /\ LET res == IF snapshot.kind = "people"
                  THEN sync_folk_people_to_ezekia(file, snapshot.entries, snapshot.outcomes)
                  ELSE sync_folk_companies_to_ezekia(file, snapshot.entries, snapshot.outcomes)
       IN  /\ file' = res.file
           /\ last' = [op |-> "batch", res |-> res, file0 |-> file,
                       prev |-> IF last.op = "batch" THEN <<last.res>> ELSE <<>>]
           /\ hist' = [delivered |-> hist.delivered
                           \cup {res.log[i].id : i \in {j \in DOMAIN res.log : res.log[j].ok}}]
    /\ budget' = [budget EXCEPT !.run = @ + 1]
    /\ UNCHANGED <<now, snapshot, zapier, folk_people, folk_companies, lvars, pc, mem>>

\* An inbound handler marks a record (lines 362-364)
BatchMark ==
    /\ budget.mark < MaxMarks
    /\ \E e \in ValidEntries(snapshot.kind) :
         /\ file' = inbound_mark(file, e.d.id)
         /\ last' = [op |-> "mark", folk_id |-> e.d.id, file0 |-> file]
    /\ budget' = [budget EXCEPT !.mark = @ + 1]
    /\ UNCHANGED <<now, snapshot, zapier, folk_people, folk_companies, hist, lvars, pc, mem>>

\* The instants at which batches and marks happen: within the cooldown of
\* a mark made at 0, at its end, and past the retention window
BatchTimes == {0, SYNC_COOLDOWN - 1, SYNC_COOLDOWN, RETENTION + 1}

BatchTick ==
    /\ \E t \in BatchTimes : t > now /\ now' = t
    /\ last' = [op |-> "tick"]
    /\ UNCHANGED <<file, snapshot, zapier, budget, folk_people, folk_companies, hist,
                   lvars, pc, mem>>

BatchNext ==
    \/ BatchRun
    \/ BatchMark
    \/ BatchTick

SpecBatch == BatchInit /\ [][BatchNext]_vars

----------------------------------------------------------------------------
(* Overlapping requests: the server answers each request on its own thread *)
(* (app.run, line 826), so the handlers interleave at their file accesses  *)
(* and remote calls.  One people batch and two inbound handlers, each      *)
(* taken one step at a time.                                               *)

Requests == {"batch", "person_new", "company_new"}

ConcInit ==
    /\ now = 0
    /\ file = <<>>
    /\ folk_people = ("p1" :> BasePerson)
    /\ folk_companies = EmptyDict
    /\ zapier = [AllUrls EXCEPT !.company_update = FALSE]
    /\ pc = [r \in Requests |-> "idle"]
    /\ mem = [r \in Requests |-> [state |-> EmptyState, loads |-> 0, saves |-> 0]]
    /\ last = [op |-> "init"]
    /\ hist = EmptyDict
    /\ budget = EmptyDict
    /\ snapshot = EmptyDict
    /\ lstate = EmptyState
    /\ marked = [p \in Pairs |-> NoTime]
    /\ pruned = {}

ConcIdle == <<now, zapier, last, hist, budget, snapshot, lvars>>

\* line 579: state = load_state()
BatchLoad ==
    /\ pc["batch"] = "idle"
    /\ mem' = [mem EXCEPT !["batch"] =
                  [state |-> load_state(file), loads |-> @.loads + 1, saves |-> @.saves]]
    /\ pc' = [pc EXCEPT !["batch"] = "list"]
    /\ UNCHANGED <<file, folk_people, folk_companies, ConcIdle>>

\* lines 580-588: people = folk_client.get_all_people(), which is empty when
\* the listing fails (lines 60-61, 68-69); an empty snapshot ends the batch
BatchList ==
    /\ pc["batch"] = "list"
    /\ \E ok \in BOOLEAN, order \in Orders(DOMAIN folk_people) :
         LET people == IF ok THEN Snapshot(folk_people, order) ELSE <<>>
         IN  /\ mem' = [mem EXCEPT !["batch"] =
                           [state |-> @.state, loads |-> @.loads, saves |-> @.saves,
                            entries |-> people, i |-> 1,
                            stats |-> ZeroStats, log |-> <<>>]]
             /\ pc' = [pc EXCEPT !["batch"] = IF Len(people) = 0 THEN "done" ELSE "loop"]
    /\ UNCHANGED <<file, folk_people, folk_companies, ConcIdle>>

\* lines 590-666: one iteration of the for loop
BatchRecord ==
    /\ pc["batch"] = "loop"
    /\ mem["batch"].i <= Len(mem["batch"].entries)
    /\ \E outcome \in SinkOutcomes :
         LET m == mem["batch"]
             acc == sync_record("people",
                                [state |-> m.state, stats |-> m.stats, log |-> m.log],
                                m.entries[m.i], outcome)
         IN  mem' = [mem EXCEPT !["batch"] =
                        [m EXCEPT !.state = acc.state, !.stats = acc.stats,
                                  !.log = acc.log, !.i = @ + 1]]
    /\ UNCHANGED <<pc, file, folk_people, folk_companies, ConcIdle>>

\* lines 668-669: state["last_poll"] = ...; save_state(state) is entered
BatchFinish ==
    /\ pc["batch"] = "loop"
    /\ mem["batch"].i > Len(mem["batch"].entries)
    /\ mem' = [mem EXCEPT !["batch"].state = Put(@, "last_poll", now)]
    /\ pc' = [pc EXCEPT !["batch"] = "save"]
    /\ UNCHANGED <<file, folk_people, folk_companies, ConcIdle>>

\* lines 355-359: create_person(folk_data) and its answer
PersonNewCreate ==
    /\ pc["person_new"] = "idle"
    /\ \E data \in HookPeople, resp \in FolkResponses, new \in PersonIds \ DOMAIN folk_people :
         /\ folk_people' = IF FolkOk(resp)
                           THEN Put(folk_people, new,
                                    FolkCreated("people", new, person_folk_data(data)))
                           ELSE folk_people
         /\ mem' = [mem EXCEPT !["person_new"] =
                       [state |-> @.state, loads |-> @.loads, saves |-> @.saves,
                        folk_id |-> IF resp = "201" THEN new ELSE ""]]
         /\ pc' = [pc EXCEPT !["person_new"] = IF FolkOk(resp) THEN "load" ELSE "done"]
    /\ UNCHANGED <<file, folk_companies, ConcIdle>>

\* lines 428-430: create_company(folk_data) and its answer
CompanyNewCreate ==
    /\ pc["company_new"] = "idle"
    /\ \E data \in HookCompanies, resp \in FolkResponses,
          new \in CompanyIds \ DOMAIN folk_companies :
         /\ folk_companies' = IF FolkOk(resp)
                              THEN Put(folk_companies, new,
                                       FolkCreated("companies", new, company_folk_data(data)))
                              ELSE folk_companies
         /\ mem' = [mem EXCEPT !["company_new"] =
                       [state |-> @.state, loads |-> @.loads, saves |-> @.saves,
                        folk_id |-> IF resp = "201" THEN new ELSE ""]]
         /\ pc' = [pc EXCEPT !["company_new"] = IF FolkOk(resp) THEN "load" ELSE "done"]
    /\ UNCHANGED <<file, folk_people, ConcIdle>>

\* lines 362-363 and 432-433: state = load_state(); mark_synced(state,
\* folk_id, "ezekia")
HookLoad(r) ==
    /\ pc[r] = "load"
    /\ mem' = [mem EXCEPT ![r].state = mark_synced(load_state(file), mem[r].folk_id, "ezekia"),
                          ![r].loads = @ + 1]
    /\ pc' = [pc EXCEPT ![r] = "save"]
    /\ UNCHANGED <<file, folk_people, folk_companies, ConcIdle>>

\* save_state, line 292: open(STATE_FILE, 'w') truncates the file
SaveOpen(r) ==
    /\ pc[r] = "save"
    /\ file' = Unreadable
    /\ pc' = [pc EXCEPT ![r] = "write"]
    /\ UNCHANGED <<mem, folk_people, folk_companies, ConcIdle>>

\* save_state, line 293: json.dump writes the request's state
SaveWrite(r) ==
    /\ pc[r] = "write"
    /\ file' = save_state(file, mem[r].state)
    /\ mem' = [mem EXCEPT ![r].saves = @ + 1]
    /\ pc' = [pc EXCEPT ![r] = "done"]
    /\ UNCHANGED <<folk_people, folk_companies, ConcIdle>>

ConcNext ==
    \/ BatchLoad
    \/ BatchList
    \/ BatchRecord
    \/ BatchFinish
    \/ PersonNewCreate
    \/ CompanyNewCreate
    \/ \E r \in {"person_new", "company_new"} : HookLoad(r)
    \/ \E r \in Requests : SaveOpen(r)
    \/ \E r \in Requests : SaveWrite(r)

SpecConc == ConcInit /\ [][ConcNext]_vars

----------------------------------------------------------------------------
(* Persistence failures: the people batch and webhook_person_new, with a   *)
(* save_state call that can fail                                           *)

MaxOps == 3

PersistInit ==
    /\ now = 0
    /\ file = <<>>
    /\ folk_people = ("p1" :> BasePerson)
    /\ folk_companies = EmptyDict
    /\ zapier = [AllUrls EXCEPT !.company_update = FALSE]
    /\ last = [op |-> "init"]
    /\ hist = EmptyDict
    /\ budget = [ops |-> 0]
    /\ lstate = EmptyState
    /\ marked = [p \in Pairs |-> NoTime]
    /\ pruned = {}
    /\ snapshot = EmptyDict
    /\ pc = EmptyDict
    /\ mem = EmptyDict

\* sync_folk_people_to_ezekia() whose save_state call ends in `saving`
PersistSync ==
    /\ budget.ops < MaxOps
    /\ \E order \in Orders(DOMAIN folk_people), saving \in SaveOutcomes :
         \E outs \in [DOMAIN order -> SinkOutcomes] :
           LET people == Snapshot(folk_people, order)
               res == sync_folk_people_to_ezekia(file, people, outs)
           IN  /\ file' = IF res.saved THEN write_state(file, res.final, saving) ELSE file
               /\ last' = [op |-> "sync", saving |-> saving, file0 |-> file,
                           loaded |-> res.state0, final |-> res.final,
                           people |-> people, outcomes |-> outs, log |-> res.log,
                           response |-> after_save(res.stats, saving)]
    /\ budget' = [budget EXCEPT !.ops = @ + 1]
    /\ UNCHANGED <<now, folk_people, folk_companies, zapier, hist, lvars, xvars>>

\* webhook_person_new whose save_state call ends in `saving`
PersistPersonNew ==
    /\ budget.ops < MaxOps
    /\ \E data \in HookPeople, resp \in FolkResponses, saving \in SaveOutcomes,
          new \in PersonIds \ DOMAIN folk_people :
         LET folk_id == IF resp = "201" THEN new ELSE ""
             state == load_state(file)
             final == mark_synced(state, folk_id, "ezekia")
         IN  /\ folk_people' = IF FolkOk(resp)
                               THEN Put(folk_people, new,
                                        FolkCreated("people", new, person_folk_data(data)))
                               ELSE folk_people
             /\ file' = IF FolkOk(resp) THEN write_state(file, final, saving) ELSE file
             /\ last' = [op |-> "webhook_person_new", saving |-> saving, file0 |-> file,
                         loaded |-> state, final |-> final,
                         resp |-> resp, new |-> new,
                         response |->
                             IF FolkOk(resp)
                             THEN after_save([status |-> "success", folk_id |-> folk_id],
                                             saving)
                             ELSE [status |-> "error"]]
    /\ budget' = [budget EXCEPT !.ops = @ + 1]
    /\ UNCHANGED <<now, folk_companies, zapier, hist, lvars, xvars>>

PersistNext ==
    \/ PersistSync
    \/ PersistPersonNew

SpecPersist == PersistInit /\ [][PersistNext]_vars

----------------------------------------------------------------------------
(* Remote calls: each handler taken from one remote call to the next.  A   *)
(* request waits at the label of the call it has issued until the remote   *)
(* system answers; only send_to_zapier passes a timeout to requests (line  *)
(* 569), the FolkClient calls pass none (lines 58, 90, 98-102, 109-113,    *)
(* 151).                                                                   *)

CallRequests == {"batch", "person_new", "note"}

MaxPages == 2

CallsInit ==
    /\ now = 0
    /\ file = <<>>
    /\ folk_people = ("p1" :> BasePerson)
    /\ folk_companies = EmptyDict
    /\ zapier = [AllUrls EXCEPT !.company_update = FALSE]
    /\ pc = [r \in CallRequests |-> "idle"]
    /\ mem = [r \in CallRequests |-> [page |-> 0, people |-> 0, i |-> 0, synced |-> 0]]
    /\ last = [op |-> "init"]
    /\ hist = EmptyDict
    /\ budget = EmptyDict
    /\ snapshot = EmptyDict
    /\ lstate = EmptyState
    /\ marked = [p \in Pairs |-> NoTime]
    /\ pruned = {}

CallsIdle == <<now, file, folk_people, folk_companies, zapier, last, hist, budget,
               snapshot, lvars>>

\* A request arrives and runs up to its first remote call: the first page
\* of get_all_people (lines 579-580, 67), create_person (line 355),
\* get_person(folk_id) (line 482)
RequestStart(r) ==
    /\ pc[r] = "idle"
    /\ pc' = [pc EXCEPT ![r] = CASE r = "batch" -> "list_people"
                                 [] r = "person_new" -> "create_person"
                                 [] OTHER -> "get_person"]
    /\ mem' = [mem EXCEPT ![r].page = IF r = "batch" THEN 1 ELSE @]
    /\ UNCHANGED CallsIdle

\* get_all_people, lines 66-86: a page is answered.  On a status other
\* than 200 or an empty page the loop breaks; a page with a next cursor is
\* followed by the request for the next page.  Then lines 582-588: an empty
\* snapshot returns, another starts the for loop, which reaches its first
\* delivery (line 657).
ListPeopleAnswer ==
    /\ pc["batch"] = "list_people"
    /\ \E status \in {200, 500}, items \in 0..1, cursor \in BOOLEAN :
         LET m == mem["batch"]
             more == status = 200 /\ items > 0 /\ cursor /\ m.page < MaxPages
             people == IF status = 200 THEN m.people + items ELSE m.people
         IN  /\ mem' = [mem EXCEPT !["batch"] =
                            [page |-> IF more THEN m.page + 1 ELSE m.page,
                             people |-> people,
                             i |-> IF more THEN 0 ELSE 1,
                             synced |-> 0]]
             /\ pc' = [pc EXCEPT !["batch"] =
                          IF more THEN "list_people"
                          ELSE IF people = 0 THEN "done" ELSE "send_to_zapier"]
    /\ UNCHANGED CallsIdle

\* The for loop after the delivery of record i ended (lines 657-669): the
\* tally, then the next delivery, or save_state after the last record
AfterDelivery(sent) ==
    LET m == mem["batch"]
    IN  /\ mem' = [mem EXCEPT !["batch"].i = @ + 1,
                              !["batch"].synced = IF sent THEN @ + 1 ELSE @]
        /\ pc' = [pc EXCEPT !["batch"] = IF m.i < m.people THEN "send_to_zapier" ELSE "save"]
        /\ UNCHANGED CallsIdle

\* send_to_zapier, lines 569-571: Zapier answers
ZapierAnswer ==
    /\ pc["batch"] = "send_to_zapier"
    /\ \E status \in {200, 500} : AfterDelivery(status = 200)

\* send_to_zapier, lines 569 and 572-574: no answer within timeout=30,
\* requests raises and the delivery counts as failed
ZapierTimeout ==
    /\ pc["batch"] = "send_to_zapier"
    /\ AfterDelivery(FALSE)

\* webhook_person_new, lines 355-368: create_person is answered
CreatePersonAnswer ==
    /\ pc["person_new"] = "create_person"
    /\ \E resp \in FolkResponses :
         pc' = [pc EXCEPT !["person_new"] = IF FolkOk(resp) THEN "save" ELSE "done"]
    /\ UNCHANGED <<mem, CallsIdle>>

\* webhook_note with a folk_id, lines 480-550: get_person, list_groups,
\* get_person inside append_to_custom_field and update_person are answered
\* in turn; a failed answer ends the handler with an error
NoteAnswer ==
    /\ pc["note"] \in {"get_person", "list_groups", "fetch_person", "update_person"}
    /\ \E ok \in BOOLEAN :
         pc' = [pc EXCEPT !["note"] =
                   IF ~ok THEN "done"
                   ELSE CASE pc["note"] = "get_person" -> "list_groups"
                          [] pc["note"] = "list_groups" -> "fetch_person"
                          [] pc["note"] = "fetch_person" -> "update_person"
                          [] OTHER -> "save"]
    /\ UNCHANGED <<mem, CallsIdle>>

\* load_state, mark_synced, save_state (lines 362-364, 535-537) or
\* last_poll and save_state (lines 668-669): local steps
SaveState(r) ==
    /\ pc[r] = "save"
    /\ pc' = [pc EXCEPT ![r] = "done"]
    /\ UNCHANGED <<mem, CallsIdle>>

CallsNext ==
    \/ \E r \in CallRequests : RequestStart(r)
    \/ ListPeopleAnswer
    \/ ZapierAnswer
    \/ ZapierTimeout
    \/ CreatePersonAnswer
    \/ NoteAnswer
    \/ \E r \in CallRequests : SaveState(r)

\* The steps that happen without the remote systems: the local steps and
\* the expiry of the one timeout the code sets.  Answers are up to Folk and
\* Zapier.
SpecCalls ==
    /\ CallsInit
    /\ [][CallsNext]_vars
    /\ WF_vars(ZapierTimeout)
    /\ \A r \in CallRequests : WF_vars(SaveState(r))

----------------------------------------------------------------------------
(* Claims about the loop suppressor, checked under SpecLoop                *)

Suppressed(p) == is_recently_synced(lstate, p[2], p[1])

\* C2: shouldSuppress(state, r, S) is true exactly when (S, r) was marked
\* and less than 5 minutes have passed since the mark: a pair marked at T is
\* suppressed at every check up to T + 4m59s, not suppressed at T + 5m or
\* later, and a pair that was never marked is never suppressed.
C2_SuppressWindow ==
    \A p \in Pairs :
        /\ marked[p] = NoTime => ~Suppressed(p)
        /\ (marked[p] # NoTime /\ now <= marked[p] + (5 * 60 - 1)) => Suppressed(p)
        /\ (marked[p] # NoTime /\ now >= marked[p] + 5 * 60) => ~Suppressed(p)

\* One pair is checked 4m59s after its mark and is suppressed, another is
\* checked exactly 5m after its mark and is not.
C2_Witness ==
    \E p, q \in Pairs :
        /\ marked[p] # NoTime /\ now = marked[p] + 299 /\ Suppressed(p)
        /\ marked[q] # NoTime /\ now = marked[q] + 300 /\ ~Suppressed(q)

\* C3: directional independence: a record marked from one source only is
\* not suppressed for the other source, and every mark younger than 1 hour
\* is still stored with its own timestamp whatever other pairs were marked
\* after it.
C3_DirectionalIndependence ==
    /\ \A r \in LoopIds :
          /\ marked[<<"folk", r>>] = NoTime => ~is_recently_synced(lstate, r, "folk")
          /\ marked[<<"ezekia", r>>] = NoTime => ~is_recently_synced(lstate, r, "ezekia")
    /\ \A p \in Pairs :
          (marked[p] # NoTime /\ now - marked[p] < RETENTION) =>
              /\ key(p[1], p[2]) \in DOMAIN lstate.recent_syncs
              /\ lstate.recent_syncs[key(p[1], p[2])] = marked[p]

\* A record holds a fresh mark from Ezekia and none from Folk, and another
\* pair was marked after it.
C3_Witness ==
    \E r \in LoopIds, q \in Pairs :
        /\ marked[<<"ezekia", r>>] # NoTime
        /\ marked[<<"folk", r>>] = NoTime
        /\ is_recently_synced(lstate, r, "ezekia")
        /\ ~is_recently_synced(lstate, r, "folk")
        /\ q # <<"ezekia", r>>
        /\ marked[q] > marked[<<"ezekia", r>>]

\* C4: right after a markSynced call the entry just written is present with
\* the current time and no entry older than 1 hour remains; a pair that was
\* pruned is absent and not suppressed until it is marked again.
C4_MarkAndPrune ==
    /\ \A p \in Pairs :
          marked[p] = now =>
              /\ key(p[1], p[2]) \in DOMAIN lstate.recent_syncs
              /\ lstate.recent_syncs[key(p[1], p[2])] = now
    /\ (\E p \in Pairs : marked[p] = now) =>
          \A k \in DOMAIN lstate.recent_syncs :
              now - lstate.recent_syncs[k] <= RETENTION
    /\ \A p \in pruned :
          /\ key(p[1], p[2]) \notin DOMAIN lstate.recent_syncs
          /\ ~Suppressed(p)

\* A mark older than 1 hour was pruned by a later markSynced call.
C4_Witness ==
    \E p \in pruned, q \in Pairs :
        /\ marked[q] = now
        /\ now - marked[p] > RETENTION
        /\ key(q[1], q[2]) \in DOMAIN lstate.recent_syncs

----------------------------------------------------------------------------
(* Claims about the handlers, checked under Spec                           *)

Kinds == {"people", "companies"}

InboundOps ==
    {"webhook_person_new", "webhook_person_update", "webhook_company_new", "webhook_note"}

\* The entries of the last batch of a kind, as <<kind, position>>
Entries == {<<k, i>> \in Kinds \X (1..3) : i <= Len(last[k].log)}

Entry(x) == last[x[1]].log[x[2]]

\* The entries that are records (not malformed)
Records == {x \in Entries : Entry(x).cls # "invalid"}

\* The current fingerprint of the record of an entry
CurrentHash(x) == compute_hash(hash_data(x[1], Entry(x).rec))

\* The record has a recordStates entry holding its current fingerprint
HasCurrentHash(x) ==
    /\ Entry(x).id \in DOMAIN Entry(x).s0[x[1]]
    /\ Entry(x).s0[x[1]][Entry(x).id].hash = CurrentHash(x)

\* The allow-listed fields of a record
AllowList(kind) ==
    IF kind = "people"
    THEN {"firstName", "lastName", "emails", "phones", "jobTitle"}
    ELSE {"name", "urls"}

AllowListed(kind, record) == Restrict(record, AllowList(kind))

CountLog(log, classes) == Cardinality({i \in DOMAIN log : log[i].cls \in classes})

\* C1: once an inbound event has written a record into Folk, no later
\* outbound batch delivers that record to Ezekia unless it was changed in
\* Folk after the inbound write.
C1_NoEchoDelivery ==
    last.op = "sync" =>
        \A x \in Records : Entry(x).ok => Entry(x).id \notin last.hist0.echo

C6_SkipOnFolkMark ==
    last.op = "sync" =>
        \A x \in Records :
            is_recently_synced(Entry(x).s0, Entry(x).id, "folk") =>
                /\ Entry(x).cls \in {"skipped_recent", "skipped_unchanged"}
                /\ ~Entry(x).invoked

\* C6 amended: a record with a source-A (ezekia) mark younger than the
\* cooldown is skipped by the batch and not delivered, even when its
\* fingerprint differs from the stored one.
C6_SkipOnEzekiaMark ==
    last.op = "sync" =>
        \A x \in Records :
            is_recently_synced(Entry(x).s0, Entry(x).id, "ezekia") =>
                /\ Entry(x).cls = "skipped_recent"
                /\ ~Entry(x).invoked
                /\ ~Entry(x).ok
                /\ Entry(x).s1 = Entry(x).s0

\* A record already delivered once was changed in Folk, then marked by an
\* inbound event, and the batch skips it.
C6_Witness ==
    /\ last.op = "sync"
    /\ \E x \in Records :
          /\ is_recently_synced(Entry(x).s0, Entry(x).id, "ezekia")
          /\ Entry(x).id \in DOMAIN Entry(x).s0[x[1]]
          /\ ~HasCurrentHash(x)
          /\ Entry(x).cls = "skipped_recent"

\* C7: an inbound event for a record that an outbound batch delivered less
\* than 5 minutes before (a fresh folk mark) ends Suppressed: the Folk
\* adapter is not called.
C7_InboundSuppressedAfterOutbound ==
    (/\ last.op = "webhook_person_update"
     /\ last.existing # ""
     /\ is_recently_synced(load_state(last.file0), last.existing, "folk")) =>
        last.adapter = "none"

\* C8: a record whose current fingerprint is the stored one is skipped: the
\* sink is not called for it, the in-memory state is left as it was, and it
\* is tallied as skipped, not synced.
C8_UnchangedSkip ==
    last.op = "sync" =>
        /\ \A x \in Records :
              HasCurrentHash(x) =>
                  /\ Entry(x).cls \in {"skipped_unchanged", "skipped_recent"}
                  /\ ~Entry(x).invoked
                  /\ Entry(x).s1 = Entry(x).s0
        /\ \A k \in Kinds :
              /\ last[k].stats.skipped =
                    CountLog(last[k].log, {"skipped_unchanged", "skipped_recent"})
              /\ last[k].stats.synced =
                    Cardinality({i \in DOMAIN last[k].log : last[k].log[i].ok})

\* A batch met a record that it had delivered before and that did not
\* change, and skipped it.
C8_Witness ==
    /\ last.op = "sync"
    /\ \E x \in Records :
          /\ HasCurrentHash(x)
          /\ Entry(x).cls = "skipped_unchanged"
          /\ last[x[1]].stats.skipped >= 1

\* C9: a record that is not suppressed is new and goes to the "new"
\* channel when it has no recordStates entry, is changed and goes to the
\* "update" channel when its stored fingerprint differs; a record whose
\* allow-listed fields differ from those last delivered is never skipped as
\* unchanged.
C9_ChangedDetection ==
    last.op = "sync" =>
        \A x \in Records :
            ~is_recently_synced(Entry(x).s0, Entry(x).id, "ezekia") =>
                /\ Entry(x).id \notin DOMAIN Entry(x).s0[x[1]] =>
                      /\ Entry(x).cls = "new"
                      /\ Entry(x).channel = "new"
                      /\ Entry(x).invoked
                /\ (Entry(x).id \in DOMAIN Entry(x).s0[x[1]] /\ ~HasCurrentHash(x)) =>
                      /\ Entry(x).cls = "changed"
                      /\ Entry(x).channel = "update"
                      /\ Entry(x).invoked
                /\ (/\ Entry(x).id \in DOMAIN last.hist0.delivered
                    /\ AllowListed(x[1], last.hist0.delivered[Entry(x).id])
                          # AllowListed(x[1], Entry(x).rec)) =>
                      Entry(x).cls \in {"new", "changed"}
                /\ Entry(x).id \notin DOMAIN last.hist0.delivered =>
                      Entry(x).cls = "new"

\* A record delivered before had an allow-listed field changed and goes to
\* the "update" channel.
C9_Witness ==
    /\ last.op = "sync"
    /\ \E x \in Records :
          /\ Entry(x).id \in DOMAIN last.hist0.delivered
          /\ AllowListed(x[1], last.hist0.delivered[Entry(x).id])
                # AllowListed(x[1], Entry(x).rec)
          /\ Entry(x).cls = "changed"
          /\ Entry(x).channel = "update"
          /\ Entry(x).invoked

\* The part of C10 about the failing batch itself: a failed delivery is
\* tallied as an error, leaves the in-memory state as it was, and every
\* entry of the snapshot is still processed.
FailureIsContained ==
    /\ \A x \in Records :
          (Entry(x).invoked /\ ~Entry(x).ok) => Entry(x).s1 = Entry(x).s0
    /\ \A k \in Kinds :
          last[k].stats.errors =
              Cardinality({i \in DOMAIN last[k].log :
                              \/ last[k].log[i].cls = "invalid"
                              \/ last[k].log[i].invoked /\ ~last[k].log[i].ok})
    /\ Len(last.people.log) = Cardinality(DOMAIN folk_people)
    /\ Len(last.companies.log) = Cardinality(DOMAIN folk_companies)

\* The record of the entry failed to deliver in an earlier batch, was not
\* delivered since and is unchanged
FailedBefore(x) ==
    /\ Entry(x).id \in DOMAIN last.hist0.failed
    /\ last.hist0.failed[Entry(x).id].rec = Entry(x).rec

\* C10 as stated: a failed delivery changes nothing but the errors tally,
\* the batch goes on, and in a later batch the same unchanged record is
\* attempted again on the same channel.
C10_RetryOnNextCycle ==
    last.op = "sync" =>
        /\ FailureIsContained
        /\ \A x \in Records :
              FailedBefore(x) =>
                  /\ Entry(x).invoked
                  /\ Entry(x).cls \in {"new", "changed"}
                  /\ Entry(x).channel = last.hist0.failed[Entry(x).id].channel

\* C10 amended: the same, for a record that is not suppressed by a fresh
\* ezekia mark when the later batch runs.
C10_RetryUnlessSuppressed ==
    last.op = "sync" =>
        /\ FailureIsContained
        /\ \A x \in Records :
              (FailedBefore(x) /\ ~is_recently_synced(Entry(x).s0, Entry(x).id, "ezekia")) =>
                  /\ Entry(x).invoked
                  /\ Entry(x).cls \in {"new", "changed"}
                  /\ Entry(x).channel = last.hist0.failed[Entry(x).id].channel

\* A record whose delivery failed in an earlier batch is attempted again,
\* while another entry of the same batch fails.
C10_Witness ==
    /\ last.op = "sync"
    /\ \E x \in Records :
          /\ FailedBefore(x)
          /\ Entry(x).invoked
          /\ Entry(x).channel = last.hist0.failed[Entry(x).id].channel
    /\ \E y \in Records : Entry(y).invoked /\ ~Entry(y).ok

----------------------------------------------------------------------------
(* Claims about one batch, checked under SpecBatch                         *)

RemoveAt(seq, i) == [j \in 1..(Len(seq) - 1) |-> IF j < i THEN seq[j] ELSE seq[j + 1]]

Classes(log) == [j \in DOMAIN log |-> log[j].cls]

\* The positions of the snapshot whose entry is not a record mapping
OddPositions == {i \in DOMAIN snapshot.entries : snapshot.entries[i].t # "dict"}

\* The batch of the same kind from the same state file, without entry i
BatchWithout(i) ==
    sync_batch(snapshot.kind, last.file0,
               RemoveAt(snapshot.entries, i), RemoveAt(snapshot.outcomes, i))

\* C11: an entry that is not a record mapping is skipped as invalid, is not
\* sent to the sink and leaves the in-memory state as it was; the batch
\* counts one more error than the batch without that entry and classifies
\* the other entries as that batch does.
C11_MalformedEntriesSkipped ==
    last.op = "batch" =>
        \A i \in OddPositions :
            /\ last.res.log[i].cls = "invalid"
            /\ ~last.res.log[i].invoked
            /\ last.res.log[i].s1 = last.res.log[i].s0
            /\ last.res.stats.errors = BatchWithout(i).stats.errors + 1
            /\ Classes(RemoveAt(last.res.log, i)) = Classes(BatchWithout(i).log)

\* The snapshot holds one entry, a record
OneRecord == Len(snapshot.entries) = 1 /\ snapshot.entries[1].t = "dict"

Invocations(log) == Cardinality({j \in DOMAIN log : log[j].invoked})

\* C12: from the empty state a batch over a one-record snapshot classifies
\* the record new and calls the sink once; when the sink accepts, the state
\* file holds the record's fingerprint and its folk mark; the same batch run
\* again right after skips the record, calls no sink and reports
\* {synced: 0, skipped: 1, errors: 0}.
C12_EndToEnd ==
    (last.op = "batch" /\ OneRecord) =>
        LET rec == snapshot.entries[1].d
            kind == snapshot.kind
            res == last.res
        IN  /\ res.state0 = EmptyState =>
                  /\ res.log[1].cls = "new"
                  /\ Invocations(res.log) = 1
                  /\ res.log[1].ok =>
                        /\ res.stats = [synced |-> 1, skipped |-> 0, errors |-> 0]
                        /\ rec.id \in DOMAIN load_state(file)[kind]
                        /\ load_state(file)[kind][rec.id].hash
                              = compute_hash(hash_data(kind, rec))
                        /\ key("folk", rec.id) \in DOMAIN load_state(file).recent_syncs
            /\ (/\ last.prev # <<>>
                /\ last.prev[1].state0 = EmptyState
                /\ last.prev[1].log[1].ok) =>
                  /\ res.log[1].cls \in {"skipped_unchanged", "skipped_recent"}
                  /\ Invocations(res.log) = 0
                  /\ res.stats = [synced |-> 0, skipped |-> 1, errors |-> 0]

\* The batch over <<p1>> ran from the empty state, the sink accepted, and the
\* batch ran again in the next step.
C12_Witness ==
    /\ last.op = "batch"
    /\ snapshot.kind = "people"
    /\ snapshot.entries = <<Dict(BasePerson)>>
    /\ last.prev # <<>>
    /\ last.prev[1].state0 = EmptyState
    /\ last.prev[1].log[1].cls = "new"
    /\ last.prev[1].log[1].ok
    /\ last.res.stats = [synced |-> 0, skipped |-> 1, errors |-> 0]

\* The processing orders of a snapshot of n entries
Perms(n) == {q \in [1..n -> 1..n] : \A i, j \in 1..n : q[i] = q[j] => i = j}

\* The batch of the same kind from the same state file at the same instant,
\* the entries taken in the order q, each with its own sink outcome
BatchInOrder(q) ==
    sync_batch(snapshot.kind, last.file0,
               [i \in DOMAIN q |-> snapshot.entries[q[i]]],
               [i \in DOMAIN q |-> snapshot.outcomes[q[i]]])

\* C17: for a snapshot of records with distinct ids, the tallies and the
\* saved recordStates and recent_syncs are the same in every processing
\* order, the starting state, the clock and each record's sink outcome
\* being the same.
C17_OrderIndependence ==
    (last.op = "batch" /\ OddPositions = {}) =>
        \A q \in Perms(Len(snapshot.entries)) :
            /\ BatchInOrder(q).stats = last.res.stats
            /\ BatchInOrder(q).file = last.res.file
            /\ BatchInOrder(q).file = file

\* A batch over two records delivered one and skipped the other, which an
\* inbound event had marked, from a state file that held marks already.
C17_Witness ==
    /\ last.op = "batch"
    /\ OddPositions = {}
    /\ Len(snapshot.entries) = 2
    /\ last.file0 # <<>>
    /\ last.res.stats.synced = 1
    /\ last.res.stats.skipped = 1
    /\ \E i \in 1..2 : last.res.log[i].cls = "skipped_recent"

\* The recordStates entries of a state, of both kinds
RecordStates(state) == [people |-> state.people, companies |-> state.companies]

\* C15: every recordStates entry in the state file is of a record that a
\* batch delivered; an inbound mark leaves recordStates as it was, and so
\* does every entry of a batch that was skipped, is malformed, or failed to
\* deliver.
C15_RecordStatesOnlyAfterDelivery ==
    /\ \A k \in {"people", "companies"} :
          DOMAIN load_state(file)[k] \subseteq hist.delivered
    /\ last.op = "mark" =>
          RecordStates(load_state(file)) = RecordStates(load_state(last.file0))
    /\ last.op = "batch" =>
          \A i \in DOMAIN last.res.log :
              (~last.res.log[i].ok \/ i \in OddPositions) =>
                  RecordStates(last.res.log[i].s1) = RecordStates(last.res.log[i].s0)

----------------------------------------------------------------------------
(* Claims about overlapping requests, checked under SpecConc               *)

\* The recent_syncs keys a finished request wrote to the file
MarksWritten(r) ==
    IF mem[r].saves = 0 THEN {}
    ELSE IF r = "batch"
    THEN {key("folk", mem[r].log[j].id) : j \in {j \in DOMAIN mem[r].log : mem[r].log[j].ok}}
    ELSE {key("ezekia", mem[r].folk_id)}

\* The ids of the people entries a finished batch wrote to the file
RecordsWritten ==
    IF mem["batch"].saves = 0 THEN {}
    ELSE {mem["batch"].log[j].id :
             j \in {j \in DOMAIN mem["batch"].log : mem["batch"].log[j].ok}}

\* C13: when overlapping requests have all finished, the state file holds
\* the marks and the recordStates entries that each of them wrote.
C13_NoLostUpdates ==
    (\A r \in Requests : pc[r] = "done") =>
        /\ \A r \in Requests : MarksWritten(r) \subseteq DOMAIN load_state(file).recent_syncs
        /\ RecordsWritten \subseteq DOMAIN load_state(file).people

\* C16: a finished batch has loaded the state once, has set last_poll to
\* the current time and has saved the state once, whatever the size of its
\* snapshot.
C16_LoadOncePersistOnce ==
    pc["batch"] = "done" =>
        /\ mem["batch"].loads = 1
        /\ mem["batch"].saves = 1
        /\ mem["batch"].state.last_poll = now

----------------------------------------------------------------------------
(* Claims about the inbound handlers, checked under SpecInbound            *)

\* C14: an inbound event whose Folk call is answered with a status other
\* than 200/201, or that ends in an error for another reason, is answered
\* with an error response that carries a message, calls Folk's create or
\* update at most once, and leaves the state file as it was.
C14_InboundFailureLeavesState ==
    (/\ last.op \in InboundOps
     /\ (last.resp = "500" \/ last.status = "error")) =>
        /\ last.status = "error"
        /\ last.code >= 400
        /\ last.message # ""
        /\ last.calls <= 1
        /\ file = last.file0

\* An update event failed in Folk after an earlier event had written the
\* state file, and the file is what it was.
C14_Witness ==
    /\ last.op = "webhook_person_update"
    /\ last.resp = "500"
    /\ last.status = "error"
    /\ last.file0 # <<>>
    /\ file = last.file0

\* C20: a lookup that matches several Folk people does not apply the event
\* to one of them, and a lookup that matches none ends in a "not found"
\* error in every handler that looks a person up.
C20_LookupPolicy ==
    last.op \in {"webhook_person_update", "webhook_note"} =>
        /\ Cardinality(last.matches) > 1 => last.adapter = "none"
        /\ last.matches = {} => (last.adapter = "none" /\ last.status = "error")

----------------------------------------------------------------------------
(* Claims about remote calls, checked under SpecCalls                      *)

\* C18: every request that has started finishes, whatever the remote
\* systems do: a call that is never answered times out and counts as a
\* failure of its step.
C18_EveryOperationFinishes ==
    \A r \in CallRequests : (pc[r] # "idle") ~> (pc[r] = "done")

----------------------------------------------------------------------------
(* Claims about persistence failures, checked under SpecPersist            *)

\* C19: an operation that finds no state file, or one that cannot be read,
\* works on the empty default state; whatever the outcome of its save_state
\* call, a batch returns the tallies of the deliveries it made and an
\* inbound handler whose Folk call succeeded returns success with the id,
\* and the person created in Folk stays there.
C19_PersistenceFailuresNotFatal ==
    last.op \in {"sync", "webhook_person_new"} =>
        /\ last.file0 \in {<<>>, Unreadable} => last.loaded = EmptyState
        /\ last.op = "sync" =>
              /\ last.response
                    = sync_folk_people_to_ezekia(last.file0, last.people, last.outcomes).stats
              /\ last.response.synced
                    = Cardinality({i \in DOMAIN last.log : last.log[i].ok})
        /\ (last.op = "webhook_person_new" /\ FolkOk(last.resp)) =>
              /\ last.response.status = "success"
              /\ last.response.folk_id = (IF last.resp = "201" THEN last.new ELSE "")
              /\ last.new \in DOMAIN folk_people

\* A batch started from a state file that cannot be read, delivered a
\* record, and its save_state call failed.
C19_Witness ==
    /\ last.op = "sync"
    /\ last.file0 = Unreadable
    /\ last.saving # "saved"
    /\ last.response.synced >= 1

----------------------------------------------------------------------------
(* compute_hash on its own: the field subsets the batches build, their     *)
(* items presented in any insertion order                                  *)

HashPeople ==
    {[id |-> "p1", firstName |-> fn, lastName |-> "Li", jobTitle |-> jt,
      emails |-> em, phones |-> ph] :
        fn \in {"Jo", "Al"}, jt \in {"CEO", ""},
        em \in {<<>>, <<"jo@x.com">>, <<"jo@x.com", "jo@y.com">>,
                <<"jo@y.com", "jo@x.com">>, <<"jo@x.com", "jo@x.com">>},
        ph \in {<<>>, <<"1", "2">>}}

HashCompanies ==
    {[id |-> "c1", name |-> n, urls |-> u] :
        n \in {"Acme", "Bolt"},
        u \in {<<>>, <<"acme.com">>, <<"acme.com", "acme.org">>,
               <<"acme.org", "acme.com">>}}

\* The list-valued fields of the hashed subset of each kind
ListFields(kind) == IF kind = "people" THEN {"emails", "phones"} ELSE {"urls"}

MaxHashes == 1

\* list[::-1]
Reverse(list) == [i \in DOMAIN list |-> list[Len(list) + 1 - i]]

HashInit ==
    /\ now = 0
    /\ file = <<>>
    /\ folk_people = EmptyDict
    /\ folk_companies = EmptyDict
    /\ zapier = AllUrls
    /\ last = [op |-> "init"]
    /\ hist = EmptyDict
    /\ budget = [ops |-> 0]
    /\ lstate = EmptyState
    /\ marked = [p \in Pairs |-> NoTime]
    /\ pruned = {}
    /\ \E kind \in {"people", "companies"} :
         \E record \in (IF kind = "people" THEN HashPeople ELSE HashCompanies) :
           snapshot = [kind |-> kind, record |-> record]
    /\ pc = EmptyDict
    /\ mem = EmptyDict

\* compute_hash called on the hash_data of the record, then on the same
\* dict built in the insertion order q, then on the dict whose list field
\* `field` is reversed
HashCompute ==
    /\ budget.ops < MaxHashes
    /\ budget' = [budget EXCEPT !.ops = @ + 1]
    /\ LET data == hash_data(snapshot.kind, snapshot.record)
       IN  \E q \in {f \in [DOMAIN data -> DOMAIN data] :
                        \A i, j \in DOMAIN data : f[i] = f[j] => i = j},
              field \in ListFields(snapshot.kind) :
             LET shuffled == [i \in DOMAIN data |-> data[q[i]]]
                 reordered == [i \in DOMAIN data |->
                                  IF data[i][1] = field
                                  THEN <<field, Reverse(data[i][2])>>
                                  ELSE data[i]]
             IN  last' = [op |-> "compute_hash", q |-> q, field |-> field,
                          data |-> data, shuffled |-> shuffled,
                          reordered |-> reordered,
                          digest |-> compute_hash(data),
                          digest_again |-> compute_hash(data),
                          digest_shuffled |-> compute_hash(shuffled),
                          digest_reordered |-> compute_hash(reordered)]
    /\ UNCHANGED <<now, file, folk_people, folk_companies, zapier, hist,
                   lvars, xvars>>

HashNext == HashCompute

SpecHash == HashInit /\ [][HashNext]_vars

----------------------------------------------------------------------------
(* Claims about compute_hash, checked under SpecHash                       *)

\* the field-name -> value mapping of a dict given as its items
Mapping(data) == {data[i] : i \in DOMAIN data}

\* C21: the fingerprint depends only on the field-name -> value mapping:
\* the same items in another key order, and a repeated call, give the same
\* digest, while a list field whose elements are in another order gives a
\* different digest.
C21_Canonicalisation ==
    last.op = "compute_hash" =>
        /\ Mapping(last.shuffled) = Mapping(last.data)
        /\ last.digest_shuffled = last.digest
        /\ last.digest_again = last.digest
        /\ (Mapping(last.reordered) # Mapping(last.data))
              => last.digest_reordered # last.digest
        /\ (Mapping(last.reordered) = Mapping(last.data))
              => last.digest_reordered = last.digest

\* The dict was built in another key order, and its two e-mail addresses
\* were swapped.
C21_Witness ==
    /\ last.op = "compute_hash"
    /\ last.shuffled # last.data
    /\ last.field = "emails"
    /\ last.reordered # last.data
    /\ last.digest_shuffled = last.digest
    /\ last.digest_reordered # last.digest

----------------------------------------------------------------------------
(* Claims about the tallies of a batch, checked under SpecBatch            *)

\* The tallies the batch of the last step has after its first k entries
TalliesAfter(k) ==
    IF k = 0 THEN ZeroStats
    ELSE sync_batch(snapshot.kind, last.file0,
                    SubSeq(snapshot.entries, 1, k),
                    SubSeq(snapshot.outcomes, 1, k)).stats

\* C22: in a batch over a non-empty snapshot of n entries every entry adds
\* one to exactly one of synced, skipped and errors, so the three sum to n
\* on return, and synced is the number of sink invocations that succeeded.
C22_TallyConservation ==
    (last.op = "batch" /\ Len(snapshot.entries) > 0) =>
        LET n == Len(snapshot.entries)
            stats == last.res.stats
            log == last.res.log
        IN  /\ stats = TalliesAfter(n)
            /\ \A k \in 1..n :
                 \E t \in {"synced", "skipped", "errors"} :
                    TalliesAfter(k) = [TalliesAfter(k - 1) EXCEPT ![t] = @ + 1]
            /\ stats.synced + stats.skipped + stats.errors = n
            /\ stats.synced
                  = Cardinality({i \in DOMAIN log : log[i].invoked /\ log[i].ok})

\* A batch over three entries that delivered one, skipped one and counted
\* one as an error.
C22_Witness ==
    /\ last.op = "batch"
    /\ Len(snapshot.entries) = 3
    /\ last.res.stats = [synced |-> 1, skipped |-> 1, errors |-> 1]

----------------------------------------------------------------------------
(* The outbound batches with Folk users editing every field the payload    *)
(* is built from                                                           *)

\* The values a Folk user can give to the person fields that are sent but
\* not hashed (lines 639, 643-651)
UnhashedValues ==
    [description |-> {"", "bio"},
     urls |-> {<<>>, <<"linkedin.com/in/jo">>},
     companies |-> {<<>>, <<[name |-> "Acme"]>>, <<[name |-> "Beta"]>>}]

PayloadInit ==
    /\ now = 0
    /\ file = <<>>
    /\ folk_people = ("p1" :> Put(BasePerson, "companies", <<[name |-> "Acme"]>>))
    /\ folk_companies = ("c1" :> BaseCompany)
    /\ zapier = AllUrls
    /\ last = [op |-> "init"]
    /\ hist = EmptyHist
    /\ budget = [sync |-> 0, hook |-> 0, edit |-> 0]
    /\ lstate = EmptyState
    /\ marked = [p \in Pairs |-> NoTime]
    /\ pruned = {}
    /\ snapshot = EmptyDict
    /\ pc = EmptyDict
    /\ mem = EmptyDict

\* A Folk user changes the description, the urls or the companies of a
\* person
FolkEditUnhashed ==
    /\ budget.edit < MaxEdits
    /\ \E id \in DOMAIN folk_people, field \in DOMAIN UnhashedValues :
         \E value \in UnhashedValues[field] \ {Get(folk_people[id], field, <<>>)} :
           folk_people' = Put(folk_people, id, Put(folk_people[id], field, value))
           /\ hist' = [hist EXCEPT !.echo = @ \ {id}]
    /\ last' = [op |-> "edit"]
    /\ budget' = [budget EXCEPT !.edit = @ + 1]
    /\ UNCHANGED <<now, file, folk_companies, zapier, lvars, xvars>>

PayloadNext ==
    \/ SyncFolkToEzekia
    \/ FolkEditPerson
    \/ FolkEditCompany
    \/ FolkEditUnhashed

SpecPayload == PayloadInit /\ [][PayloadNext]_vars

----------------------------------------------------------------------------
(* Claims about the delivered payload, checked under SpecPayload           *)

\* The payload last delivered for the record of an entry differs from the
\* one the batch would deliver now
PayloadDiffers(x) ==
    /\ Entry(x).id \in DOMAIN last.hist0.delivered
    /\ ezekia_data(x[1], last.hist0.delivered[Entry(x).id])
          # ezekia_data(x[1], Entry(x).rec)

\* C23: a record that is not suppressed and whose payload differs in any
\* value from the payload of its last successful delivery is classified as
\* changed and delivered by the batch.
C23_PayloadChangeDetected ==
    last.op = "sync" =>
        \A x \in Records :
            (~is_recently_synced(Entry(x).s0, Entry(x).id, "ezekia") /\ PayloadDiffers(x)) =>
                /\ Entry(x).cls = "changed"
                /\ Entry(x).invoked

----------------------------------------------------------------------------
(* Claims about the marks the inbound handlers write, checked under        *)
(* SpecInbound                                                             *)

\* The recent_syncs keys that the last handler wrote
KeysWritten ==
    LET before == load_state(last.file0).recent_syncs
        after == load_state(file).recent_syncs
    IN  {k \in DOMAIN after : k \notin DOMAIN before \/ before[k] # after[k]}

\* C24: every mark an inbound handler writes is keyed by the non-empty id
\* of a Folk record, the one the handler's Folk call created or updated; a
\* successful Folk answer without an id leaves no mark.
C24_MarkKeyedByRecordId ==
    last.op \in InboundOps =>
        \A k \in KeysWritten :
            /\ last.folk_id # ""
            /\ last.folk_id \in DOMAIN folk_people \cup DOMAIN folk_companies
            /\ k = key("ezekia", last.folk_id)

----------------------------------------------------------------------------
(* Claims about the frame of the outbound batch                            *)

OtherKind(kind) == IF kind = "people" THEN "companies" ELSE "people"

\* The source-A marks of a state that are inside the cooldown
FreshEzekiaMarks(state) ==
    {k \in DOMAIN state.recent_syncs :
        /\ \E id \in {"", "p1", "p2", "c1", "c2"} : k = key("ezekia", id)
        /\ now - state.recent_syncs[k] < SYNC_COOLDOWN}

\* What one pass of the for loop, logged as e, changed in the in-memory
\* state: nothing of the other kind, no recordStates entry but the
\* record's own, and in recent_syncs only the record's "folk" mark, written
\* on a successful delivery, and the entries at least 1 hour old, removed.
FrameOfEntry(kind, e) ==
    LET rs0 == e.s0.recent_syncs
        rs1 == e.s1.recent_syncs
    IN  /\ e.s1[OtherKind(kind)] = e.s0[OtherKind(kind)]
        /\ \A id \in (DOMAIN e.s0[kind] \cup DOMAIN e.s1[kind]) \ {e.id} :
              /\ id \in DOMAIN e.s0[kind]
              /\ id \in DOMAIN e.s1[kind]
              /\ e.s1[kind][id] = e.s0[kind][id]
        /\ ~e.ok => e.s1 = e.s0
        /\ \A k \in DOMAIN rs1 :
              (k \notin DOMAIN rs0 \/ rs0[k] # rs1[k]) =>
                  /\ e.ok
                  /\ k = key("folk", e.id)
                  /\ rs1[k] = now
        /\ \A k \in DOMAIN rs0 \ DOMAIN rs1 : now - rs0[k] >= RETENTION
        /\ \A k \in FreshEzekiaMarks(e.s0) : k \in DOMAIN rs1 /\ rs1[k] = rs0[k]

\* The frame of a batch that runs alone, checked under SpecBatch: every
\* pass keeps to FrameOfEntry and the state saved is the state after the
\* last pass with last_poll set.
BatchFrameAlone ==
    (last.op = "batch" /\ Len(snapshot.entries) > 0) =>
        LET log == last.res.log
        IN  /\ \A i \in DOMAIN log : FrameOfEntry(snapshot.kind, log[i])
            /\ log[1].s0 = load_state(last.file0)
            /\ \A i \in DOMAIN log : i > 1 => log[i].s0 = log[i - 1].s1
            /\ load_state(file) = Put(log[Len(log)].s1, "last_poll", now)

\* C25, checked under SpecConc: when the batch saves, which replaces the
\* whole state file by its in-memory state, it removes or rewrites no
\* source-A mark of the file that is inside the cooldown.
C25_BatchFrame ==
    [][(pc["batch"] = "save" /\ pc'["batch"] = "write") =>
          \A k \in FreshEzekiaMarks(load_state(file)) :
              /\ k \in DOMAIN mem["batch"].state.recent_syncs
              /\ mem["batch"].state.recent_syncs[k] = load_state(file).recent_syncs[k]]_vars

====
